---------------------------- MODULE Spec2Model ----------------------------
(***************************************************************************)
(* Model of the two status-bar modules of bumblebee-status:                *)
(*   modules/contrib/gcalendar.py       (first upcoming calendar event)    *)
(*   modules/contrib/bluetooth-icons.py (icons of connected devices)       *)
(*                                                                         *)
(* Strings whose characters matter (the 'calendars' parameter, calendar    *)
(* names, device names) are sequences of one-character strings.  Python's  *)
(* None is the empty tuple <<>> and a present value x is <<x>> wherever a   *)
(* value is optional.  Time is counted in ticks; a day has TicksPerDay      *)
(* ticks; an aware datetime is its wall-clock reading plus its UTC offset.  *)
(***************************************************************************)
EXTENDS Integers, Sequences, FiniteSets, TLC

VARIABLES
    config,      \* gcalendar: the raw 'calendars' parameter, None or Some(string)
    calendars,   \* gcalendar: self.__calendars
    events,      \* gcalendar: self._events
    expanded,    \* gcalendar: self._expanded
    service,     \* the calendar service: calendar list and events per calendar id
    clock,       \* the current instant
    now,         \* the instant the last get_events() read, None before the first
    gcalResult,  \* how the last gcalendar update() ended: "none", "ok", "raised"
    lock,        \* holder of gcalendar's execution lock: "free", "poll", "input"
    pollPc,      \* the scheduler's task for gcalendar
    inputPc,     \* the input dispatcher's task for gcalendar's left click
    renderPc,    \* the render read of gcalendar
    seen,        \* what the render read has observed so far
    committed,   \* the (expanded, events) pairs gcalendar held between actions
    btStatus,    \* bluetooth-icons: self._status, None while the attribute is unset
    btResult     \* how the last bluetooth-icons update() ended

gcalVars == <<config, calendars, events, expanded, service, clock, now, gcalResult>>
taskVars == <<lock, pollPc, inputPc, renderPc, seen, committed>>
btVars == <<btStatus, btResult>>
vars == <<gcalVars, taskVars, btVars>>

(* ------------------------------ bounds -------------------------------- *)

\* Instants (UTC ticks) range over 0..MaxTime.
MaxTime == 2
\* Ticks per calendar day.
TicksPerDay == 2
\* Events the calendar service holds, over all calendars.
MaxEvents == 2
\* UTC offset (in ticks) of the machine's timezone, used by astimezone().
SystemOffset == 1

(* --------------------------- value domains ---------------------------- *)

None == <<>>
Some(x) == <<x>>

\* UTC offsets (in ticks) a dateTime may carry.
Offsets == {0, 1}
Summaries == {"a", "b"}

\* An RFC 3339 timestamp with offset, as the service sends it for a timed event.
DateTimeStrings ==
    {[fmt |-> "dateTime", wall |-> t + o, off |-> o] : t \in 0..MaxTime, o \in Offsets}
\* A plain date, as the service sends it for an all-day event.
DateStrings == {[fmt |-> "date", day |-> d] : d \in 0..(MaxTime \div TicksPerDay)}

\* event["start"]: {"dateTime": ...} for a timed event, {"date": ...} for an
\* all-day one.
Starts ==
    {[dateTime |-> s] : s \in DateTimeStrings} \cup {[date |-> s] : s \in DateStrings}

ApiEvents ==
    {[start |-> s, summary |-> m, eventType |-> "default"] : s \in Starts, m \in Summaries}

(* ------------------------- strings (characters) ----------------------- *)

RECURSIVE lstrip(_)
lstrip(s) == IF s # <<>> /\ Head(s) = " " THEN lstrip(Tail(s)) ELSE s

RECURSIVE rstrip(_)
rstrip(s) ==
    IF s # <<>> /\ s[Len(s)] = " " THEN rstrip(SubSeq(s, 1, Len(s) - 1)) ELSE s

\* str.strip()
strip(s) == rstrip(lstrip(s))

\* str.split(','): the pieces between the commas, at least one piece.
RECURSIVE split(_)
split(s) ==
    IF \E i \in 1..Len(s) : s[i] = ","
    THEN LET i == CHOOSE k \in 1..Len(s) :
                      s[k] = "," /\ \A j \in 1..(k - 1) : s[j] # ","
         IN  <<SubSeq(s, 1, i - 1)>> \o split(SubSeq(s, i + 1, Len(s)))
    ELSE <<s>>

\* k in list
InList(x, l) == \E i \in 1..Len(l) : l[i] = x

(* ------------------------ gcalendar: __init__ ------------------------- *)

\* self.parameter("calendars", None), then the split of a non-empty value.
ParseCalendars(param) ==
    IF param = None THEN [kind |-> "NoneType", value |-> <<>>]
    ELSE IF param[1] = <<>> THEN [kind |-> "str", value |-> <<>>]
    ELSE [kind |-> "list",
          value |-> [i \in 1..Len(split(param[1])) |-> strip(split(param[1])[i])]]

(* ----------------------- gcalendar: get_events ------------------------ *)

\* dtparse as it would be if a plain date were read as midnight UTC.
dtparseAssumeUTC(s) ==
    IF s.fmt = "dateTime"
    THEN [naive |-> s.wall, tzinfo |-> Some(s.off)]
    ELSE [naive |-> s.day * TicksPerDay, tzinfo |-> Some(0)]

\* dateutil's parse: an offset makes the datetime aware, a plain date gives a
\* naive datetime at midnight.
dtparse(s) ==
    IF s.fmt = "dateTime"
    THEN [naive |-> s.wall, tzinfo |-> Some(s.off)]
    ELSE [naive |-> s.day * TicksPerDay, tzinfo |-> None]

\* event["start"].get("dateTime", event["start"].get("date"))
StartString(event) ==
    IF "dateTime" \in DOMAIN event.start THEN event.start.dateTime ELSE event.start.date

\* The instant of an aware datetime.
Instant(d) == d.naive - d.tzinfo[1]
\* datetime.date(): the calendar day of the wall-clock reading, in d's own zone.
DateOf(d) == d.naive \div TicksPerDay
\* datetime.astimezone(): the same instant in the machine's zone.
astimezone(d, tz) == [naive |-> Instant(d) + tz, tzinfo |-> Some(tz)]

\* strftime with the time format ("%H:%M") alone, or the date format first.
strftime(d, withDate) ==
    [date |-> IF withDate THEN Some(d.naive \div TicksPerDay) ELSE None,
     time |-> d.naive % TicksPerDay]

\* "%s %s" % (formatted start, summary)
Entry(when, summary) == [date |-> when.date, time |-> when.time, summary |-> summary]

\* The calendar filter as it would be if the 'continue' were never taken.
CalendarAlwaysSelected(cals, entry) == TRUE

\* if self.__calendars: if summary not in self.__calendars: continue
CalendarSelected(cals, entry) ==
    (cals.kind = "list" /\ cals.value # <<>>) => InList(entry.summary, cals.value)

\* Only add to list if not a whole day event
IsTimed(start) == start.tzinfo # None

\* The inner loop over one calendar's events.
RECURSIVE TimedEvents(_)
TimedEvents(items) ==
    IF items = <<>> THEN <<>>
    ELSE LET start == dtparse(StartString(Head(items)))
         IN  (IF IsTimed(start)
              THEN <<[date |-> start,
                      summary |-> Head(items).summary,
                      type |-> Head(items).eventType]>>
              ELSE <<>>) \o TimedEvents(Tail(items))

\* The outer loop over calendar_list["items"].
RECURSIVE event_list(_, _, _)
event_list(cals, calendarItems, eventsOf) ==
    IF calendarItems = <<>> THEN <<>>
    ELSE (IF CalendarSelected(cals, Head(calendarItems))
          THEN TimedEvents(eventsOf[Head(calendarItems).id])
          ELSE <<>>) \o event_list(cals, Tail(calendarItems), eventsOf)

\* key=lambda t: t["date"]
SortKey(gevent) == Instant(gevent.date)

\* One step of a stable sort: x goes behind every element that is not greater.
InsertStable(x, acc) ==
    LET k == Cardinality({i \in 1..Len(acc) : SortKey(acc[i]) <= SortKey(x)})
    IN  SubSeq(acc, 1, k) \o <<x>> \o SubSeq(acc, k + 1, Len(acc))

RECURSIVE SortInto(_, _)
SortInto(rest, acc) ==
    IF rest = <<>> THEN acc ELSE SortInto(Tail(rest), InsertStable(Head(rest), acc))

\* The list as it would be if it were left in the order of the calendars.
unsorted_list(l) == l

\* sorted(event_list, key=...)
sorted_list(l) == SortInto(l, <<>>)

\* The condition of the second loop: not in the past, and on the day of the
\* first event shown.
Upcoming(gevent, smaller_date, t) ==
    /\ Instant(gevent.date) >= t
    /\ (smaller_date = None \/ smaller_date = Some(DateOf(gevent.date)))

\* The second loop: the entries, given the ones collected so far.
RECURSIVE Collect(_, _, _, _, _)
Collect(rest, smaller_date, acc, t, tz) ==
    IF rest = <<>> THEN acc
    ELSE LET gevent == Head(rest)
         IN  IF Upcoming(gevent, smaller_date, t)
             THEN LET today == DateOf(gevent.date) = t \div TicksPerDay
                               \/ smaller_date # None
                      text == Entry(strftime(astimezone(gevent.date, tz), ~today),
                                    gevent.summary)
                  IN  Collect(Tail(rest), Some(DateOf(gevent.date)),
                              Append(acc, text), t, tz)
             ELSE Collect(Tail(rest), smaller_date, acc, t, tz)

\* get_events(), once the service has answered, at instant t.  svc holds what
\* the service returns for the query (timeMin = now, timeMax = now + 7 days),
\* events that have begun included; the second loop reads the clock in every
\* round, and all its readings are the one instant t.
get_events(cals, svc, t, tz) ==
    Collect(sorted_list(event_list(cals, svc.calendarList, svc.events)),
            None, <<>>, t, tz)

\* hidden()
hidden(evs) == evs = <<>>

\* status(): the entries shown and, when collapsed, the count of the others.
status(exp, evs) ==
    IF exp THEN [shown |-> evs, more |-> None]
    ELSE IF Len(evs) > 1 THEN [shown |-> <<evs[1]>>, more |-> Some(Len(evs) - 1)]
    ELSE IF Len(evs) = 1 THEN [shown |-> <<evs[1]>>, more |-> None]
    ELSE [shown |-> <<>>, more |-> None]

(* ---------------------- bluetooth-icons: the module ------------------- *)

\* self._icons; the glyphs are named by their code points.
icons ==
    [k \in {"audio-headset", "input-mouse", "keyboard", "input-keyboard", "unknown"} |->
        CASE k = "audio-headset" -> "U+F7CD"
          [] k = "input-mouse" -> "U+F87C"
          [] k = "keyboard" -> "U+F80B"
          [] k = "input-keyboard" -> "U+F80B"
          [] k = "unknown" -> "U+F059"]

\* The lower-case form of a character of the device names used here.
Lower(c) == CASE c = "K" -> "k" [] c = "B" -> "b" [] OTHER -> c

\* re.search('keyboard', name, flags=re.IGNORECASE)
MatchesKeyboard(name) ==
    LET needle == <<"k", "e", "y", "b", "o", "a", "r", "d">>
    IN  \E i \in 0..(Len(name) - Len(needle)) :
            \A j \in 1..Len(needle) : Lower(name[i + j]) = needle[j]

\* The icon name get_connected_devices() gives a connected device.
DeviceIcon(props) ==
    IF "Icon" \in DOMAIN props THEN props.Icon
    ELSE IF MatchesKeyboard(props.Name) THEN "keyboard"
    ELSE "unknown"

\* get_connected_devices(): the connected org.bluez.Device1 objects, in order.
RECURSIVE get_connected_devices(_)
get_connected_devices(objects) ==
    IF objects = <<>> THEN <<>>
    ELSE (IF "org.bluez.Device1" \in Head(objects).interfaces
             /\ Head(objects).props.Connected = 1
          THEN <<[Name |-> Head(objects).props.Name,
                  icon |-> DeviceIcon(Head(objects).props)]>>
          ELSE <<>>) \o get_connected_devices(Tail(objects))

\* update() raises KeyError for an icon name that self._icons does not hold.
BtUpdateRaises(devices) == \E i \in 1..Len(devices) : devices[i].icon \notin DOMAIN icons

\* The value update() stores in self._status: the glyphs joined, or None.
BtNewStatus(devices) ==
    IF devices # <<>>
    THEN [kind |-> "str", value |-> [i \in 1..Len(devices) |-> icons[devices[i].icon]]]
    ELSE [kind |-> "NoneType", value |-> <<>>]

\* hidden(): self._status is None; AttributeError while _status was never set.
BtHidden(st) ==
    IF st.kind = "unset" THEN [raised |-> TRUE, value |-> FALSE]
    ELSE [raised |-> FALSE, value |-> st.kind = "NoneType"]

(* ------------------------------- inputs ------------------------------- *)

\* Values of the 'calendars' parameter: unset, "", "w", " w ,h".
Params == {None, Some(<<>>), Some(<<"w">>), Some(<<" ", "w", " ", ",", "h">>)}

CalendarIds == {1, 2}

\* calendarList().list(): calendars "w" and "h", or "h" and " h".
CalendarLists ==
    {<<[id |-> 1, summary |-> <<"w">>], [id |-> 2, summary |-> <<"h">>]>>,
     <<[id |-> 1, summary |-> <<"h">>], [id |-> 2, summary |-> <<" ", "h">>]>>}

\* The service lists a calendar's events by start time (orderBy="startTime").
ServiceKey(ev) ==
    IF "dateTime" \in DOMAIN ev.start
    THEN ev.start.dateTime.wall - ev.start.dateTime.off
    ELSE ev.start.date.day * TicksPerDay

OrderedByStart(l) ==
    \A i \in 1..Len(l) : \A j \in i..Len(l) : ServiceKey(l[i]) <= ServiceKey(l[j])

EventLists(n) ==
    {l \in UNION {[1..k -> ApiEvents] : k \in 0..n} : OrderedByStart(l)}

\* The events of the two calendars, at most MaxEvents together.
EventTables ==
    UNION {{(1 :> l1) @@ (2 :> l2) : l2 \in EventLists(MaxEvents - Len(l1))} :
              l1 \in EventLists(MaxEvents)}

ServiceStates ==
    {[calendarList |-> cl, events |-> t] : cl \in CalendarLists, t \in EventTables}

\* A timed event in UTC.
TimedAt(t, m) ==
    [start |-> [dateTime |-> [fmt |-> "dateTime", wall |-> t, off |-> 0]],
     summary |-> m, eventType |-> "default"]

\* One calendar with two events of the first day.
TwoEventService ==
    [calendarList |-> <<[id |-> 1, summary |-> <<"w">>]>>,
     events |-> (1 :> <<TimedAt(0, "a"), TimedAt(1, "b")>>)]

Adapter == [interfaces |-> {"org.bluez.Adapter1"}, props |-> [Name |-> <<"h", "c", "i">>]]
Device(connected, name) ==
    [interfaces |-> {"org.bluez.Device1"}, props |-> [Connected |-> connected, Name |-> name]]
DeviceWithIcon(connected, name, icon) ==
    [interfaces |-> {"org.bluez.Device1"},
     props |-> [Connected |-> connected, Name |-> name, Icon |-> icon]]

\* What GetManagedObjects() may answer.
BusStates ==
    {<<Adapter>>,
     <<Adapter, Device(0, <<"B", "T", " ", "K", "e", "y", "b", "o", "a", "r", "d">>)>>,
     <<Adapter, Device(1, <<"B", "T", " ", "K", "e", "y", "b", "o", "a", "r", "d">>)>>,
     <<Adapter, Device(1, <<"p", "a", "d">>), DeviceWithIcon(1, <<"m">>, "input-mouse")>>,
     <<Adapter, DeviceWithIcon(1, <<"p">>, "phone")>>}

(* ------------------------------- states ------------------------------- *)

NoView == [hiddenFrom |-> None, statusFrom |-> None, expanded |-> None,
           hidden |-> None, status |-> None]

\* The state __init__ leaves, for a parameter value and a service content.
InitWith(param, svc, t) ==
    /\ config = param
    /\ calendars = ParseCalendars(param)
    /\ events = <<>>
    /\ expanded = FALSE
    /\ service = svc
    /\ clock = t
    /\ now = None
    /\ gcalResult = "none"
    /\ lock = "free"
    /\ pollPc = "idle"
    /\ inputPc = "idle"
    /\ renderPc = "idle"
    /\ seen = NoView
    /\ committed = {[expanded |-> FALSE, events |-> <<>>]}
    /\ btStatus = [kind |-> "unset", value |-> <<>>]
    /\ btResult = "none"

(* ------------------------------ update() ------------------------------ *)

\* self._events = self.get_events(), the service having answered.
Assign ==
    /\ events' = get_events(calendars, service, clock, SystemOffset)
    /\ now' = Some(clock)
    /\ gcalResult' = "ok"

\* A call inside get_events() raised: update() assigns nothing.
Raise ==
    /\ gcalResult' = "raised"
    /\ UNCHANGED <<events, now>>

\* update() run to its end with no other task in between.
UpdateReturns ==
    /\ Assign
    /\ UNCHANGED <<config, calendars, expanded, service, clock, taskVars, btVars>>

UpdateRaises ==
    /\ Raise
    /\ UNCHANGED <<config, calendars, expanded, service, clock, taskVars, btVars>>

update == UpdateReturns \/ UpdateRaises

\* Time passes.
Tick ==
    /\ clock < MaxTime
    /\ clock' = clock + 1
    /\ UNCHANGED <<config, calendars, events, expanded, service, now, gcalResult>>
    /\ UNCHANGED <<taskVars, btVars>>

\* bluetooth-icons update(): the bus answers with objects, or the call raises.
BtUpdate ==
    /\ \/ \E objects \in BusStates :
            LET devices == get_connected_devices(objects)
            IN  IF BtUpdateRaises(devices)
                THEN btResult' = "raised" /\ UNCHANGED btStatus
                ELSE btResult' = "ok" /\ btStatus' = BtNewStatus(devices)
       \/ btResult' = "raised" /\ UNCHANGED btStatus
    /\ UNCHANGED <<gcalVars, taskVars>>

(* ------------------- gcalendar's tasks, interleaved ------------------- *)

\* The module's fields as a render line would have to show them together.
Fields(exp, evs) == [expanded |-> exp, events |-> evs]

\* The lock test as it would be if update() were started without the lock.
LockIgnored == TRUE

\* The per-module execution lock is not held.
LockFree == lock = "free"

\* The 15 minute interval has elapsed: the scheduler wants to run update().
PollDue ==
    /\ pollPc = "idle"
    /\ pollPc' = "waiting"
    /\ UNCHANGED <<gcalVars, btVars, lock, inputPc, renderPc, seen, committed>>

\* The scheduler takes the lock and calls update(); the requests are on their way.
PollAcquire ==
    /\ pollPc = "waiting"
    /\ LockFree
    /\ lock' = "poll"
    /\ pollPc' = "updating"
    /\ UNCHANGED <<gcalVars, btVars, inputPc, renderPc, seen, committed>>

\* The scheduler's update() ends, by its assignment or by an exception.
PollUpdateEnds ==
    /\ pollPc = "updating"
    /\ (Assign \/ Raise)
    /\ pollPc' = "idle"
    /\ lock' = "free"
    /\ committed' = committed \cup {Fields(expanded, events')}
    /\ UNCHANGED <<config, calendars, expanded, service, clock>>
    /\ UNCHANGED <<btVars, inputPc, renderPc, seen>>

\* A left click reaches the binding registered with wait=True; a click that
\* arrives while the action runs is dropped.
InputDispatch ==
    /\ inputPc = "idle"
    /\ inputPc' = "waiting"
    /\ UNCHANGED <<gcalVars, btVars, lock, pollPc, renderPc, seen, committed>>

\* The dispatcher takes the lock and calls toggle().
InputAcquire ==
    /\ inputPc = "waiting"
    /\ LockFree
    /\ lock' = "input"
    /\ inputPc' = "toggle"
    /\ UNCHANGED <<gcalVars, btVars, pollPc, renderPc, seen, committed>>

\* toggle(): self._expanded = not self._expanded, then update() is called.
ToggleFlip ==
    /\ inputPc = "toggle"
    /\ expanded' = ~expanded
    /\ inputPc' = "updating"
    /\ UNCHANGED <<config, calendars, events, service, clock, now, gcalResult>>
    /\ UNCHANGED <<btVars, lock, pollPc, renderPc, seen, committed>>

\* toggle(): its update() ends, by its assignment or by an exception.
ToggleUpdateEnds ==
    /\ inputPc = "updating"
    /\ (Assign \/ Raise)
    /\ inputPc' = "idle"
    /\ lock' = "free"
    /\ committed' = committed \cup {Fields(expanded, events')}
    /\ UNCHANGED <<config, calendars, expanded, service, clock>>
    /\ UNCHANGED <<btVars, pollPc, renderPc, seen>>

\* The render read calls hidden().
RenderHidden ==
    /\ renderPc = "idle"
    /\ seen' = [NoView EXCEPT !.hiddenFrom = Some(events),
                              !.hidden = Some(hidden(events))]
    /\ renderPc' = "status"
    /\ UNCHANGED <<gcalVars, btVars, lock, pollPc, inputPc, committed>>

\* The render read calls status().
RenderStatus ==
    /\ renderPc = "status"
    /\ seen' = [seen EXCEPT !.statusFrom = Some(events),
                            !.expanded = Some(expanded),
                            !.status = Some(status(expanded, events))]
    /\ renderPc' = "done"
    /\ UNCHANGED <<gcalVars, btVars, lock, pollPc, inputPc, committed>>

\* The line is drawn; the next render read starts afresh.
RenderDrawn ==
    /\ renderPc = "done"
    /\ seen' = NoView
    /\ renderPc' = "idle"
    /\ UNCHANGED <<gcalVars, btVars, lock, pollPc, inputPc, committed>>

(* -------------------------- specifications ---------------------------- *)

\* get_events() over every parameter value, service content and instant.
InitEvents ==
    \E param \in Params, svc \in ServiceStates, t \in 0..MaxTime : InitWith(param, svc, t)

NextEvents == UpdateReturns

SpecEvents == InitEvents /\ [][NextEvents]_vars

\* Both modules polled one update at a time, any update failing or not.
InitModules == InitWith(None, TwoEventService, 0)

NextModules == update \/ BtUpdate \/ Tick

SpecModules == InitModules /\ [][NextModules]_vars

\* gcalendar polled, clicked and rendered by concurrent tasks.
Init == InitWith(None, TwoEventService, 0)

Next ==
    \/ PollDue \/ PollAcquire \/ PollUpdateEnds
    \/ InputDispatch \/ InputAcquire \/ ToggleFlip \/ ToggleUpdateEnds
    \/ RenderHidden \/ RenderStatus \/ RenderDrawn
    \/ Tick

Spec == Init /\ [][Next]_vars

(* ------------------------------ properties ---------------------------- *)

\* The places of the service's events: calendar position, event position.
Places ==
    {u \in (1..Len(service.calendarList)) \X (1..MaxEvents + 1) :
        u[2] <= Len(service.events[service.calendarList[u[1]].id])}

CalendarAt(u) == service.calendarList[u[1]]
EventAt(u) == service.events[CalendarAt(u).id][u[2]]

\* A timed event carries a dateTime, an all-day event a date.
TimedEvent(ev) == "dateTime" \in DOMAIN ev.start
StartInstant(ev) == ev.start.dateTime.wall - ev.start.dateTime.off

\* An entry of the list shows event ev: its summary and its start in local time.
Shows(entry, ev) ==
    /\ entry.summary = ev.summary
    /\ entry.time = (StartInstant(ev) + SystemOffset) % TicksPerDay
    /\ entry.date \in {None, Some((StartInstant(ev) + SystemOffset) \div TicksPerDay)}

\* Positions i..j of p are one piece between commas (or the ends).
Piece(p, i, j) ==
    /\ i = 1 \/ p[i - 1] = ","
    /\ j = Len(p) \/ p[j + 1] = ","
    /\ \A k \in i..j : p[k] # ","

\* Name n is listed in p: a piece of p is n between blanks.
Listed(n, p) ==
    /\ n = <<>> \/ (n[1] # " " /\ n[Len(n)] # " ")
    /\ \E i \in 1..(Len(p) + 1), j \in 0..Len(p) :
          /\ Piece(p, i, j)
          /\ \E a \in i..(j + 1) :
                /\ a + Len(n) - 1 <= j
                /\ SubSeq(p, a, a + Len(n) - 1) = n
                /\ \A k \in (i..(a - 1)) \cup ((a + Len(n))..j) : p[k] = " "

\* The 'calendars' parameter is set to a non-empty value.
FilterSet == config # None /\ config[1] # <<>>

\* The parameter admits the calendar.
Eligible(cal) == FilterSet => Listed(cal.summary, config[1])

\* The timed events of the admitted calendars that start at `now` or later.
UpcomingPlaces ==
    {u \in Places : Eligible(CalendarAt(u)) /\ TimedEvent(EventAt(u))
                       /\ StartInstant(EventAt(u)) >= now[1]}

\* The same over all calendars.
AllUpcomingPlaces ==
    {u \in Places : TimedEvent(EventAt(u)) /\ StartInstant(EventAt(u)) >= now[1]}

Earliest(u, S) == \A v \in S : StartInstant(EventAt(u)) <= StartInstant(EventAt(v))

\* C1: the event list holds no entry for an all-day event: every entry shows
\* a timed event of the service, and there are no more entries than timed events.
C1_NoAllDayEntries ==
    /\ \A i \in 1..Len(events) :
          \E u \in Places : TimedEvent(EventAt(u)) /\ Shows(events[i], EventAt(u))
    /\ Len(events) <= Cardinality({u \in Places : TimedEvent(EventAt(u))})

\* An update listed a timed event while an admitted calendar held an all-day
\* event of today or later, whose summary no entry carries.
C1_Witness ==
    /\ gcalResult = "ok"
    /\ events # <<>>
    /\ \E u \in Places :
          /\ ~TimedEvent(EventAt(u))
          /\ Eligible(CalendarAt(u))
          /\ EventAt(u).start.date.day >= now[1] \div TicksPerDay
          /\ \A i \in 1..Len(events) : events[i].summary # EventAt(u).summary

C3_OnlyListedCalendars ==
    /\ \A i \in 1..Len(events) :
          \E u \in Places :
              /\ Eligible(CalendarAt(u))
              /\ TimedEvent(EventAt(u))
              /\ Shows(events[i], EventAt(u))
    /\ (gcalResult = "ok" /\ ~FilterSet /\ AllUpcomingPlaces # {}) =>
          /\ events # <<>>
          /\ \E u \in AllUpcomingPlaces :
                Earliest(u, AllUpcomingPlaces) /\ Shows(events[1], EventAt(u))

\* With names listed between blanks, an update showed an event of a listed
\* calendar and none of the upcoming event an unlisted calendar held.
C3_Witness ==
    /\ gcalResult = "ok"
    /\ FilterSet
    /\ \E k \in 1..Len(config[1]) : config[1][k] = " "
    /\ events # <<>>
    /\ \E u \in Places :
          /\ ~Eligible(CalendarAt(u))
          /\ TimedEvent(EventAt(u))
          /\ StartInstant(EventAt(u)) >= now[1]
          /\ \A i \in 1..Len(events) : ~Shows(events[i], EventAt(u))

\* C4: a module whose last update() raised reports hidden() = True, for
\* gcalendar and for bluetooth-icons, whatever an earlier update stored.
C4_FailedUpdateHidden ==
    /\ gcalResult = "raised" => hidden(events)
    /\ btResult = "raised" => BtHidden(btStatus) = [raised |-> FALSE, value |-> TRUE]

\* C5: the scheduler's update() and the update() that toggle() calls never run
\* at the same time.
C5_UpdatesNeverOverlap == ~(pollPc = "updating" /\ inputPc = "updating")

\* toggle()'s update() is running while the scheduler's update is due and waits.
C5_Witness == inputPc = "updating" /\ pollPc = "waiting" /\ lock = "input"

\* C6: what a finished render read has seen (hidden() and status()) is what the
\* module's fields gave at one moment between actions: once no action runs,
\* some pair of fields the module held between actions yields both results.
C6_RenderReadAtomic ==
    (renderPc = "done" /\ pollPc # "updating" /\ inputPc \notin {"toggle", "updating"}) =>
        \E f \in committed :
            /\ seen.hidden = Some(hidden(f.events))
            /\ seen.status = Some(status(f.expanded, f.events))

=============================================================================
